---- MODULE Spec2Model ----
(***************************************************************************)
(* Service Connect backend: the request handlers of server/app.py over the *)
(* tables of server/models.py.  The store is shared by concurrent request  *)
(* handlers; every handler owns an ORM session, reads committed rows and   *)
(* makes its own writes visible at db.session.commit().  A handler is cut  *)
(* into steps at its database round trips.                                 *)
(***************************************************************************)
EXTENDS Integers, Sequences, FiniteSets, TLC

VARIABLES users, ratings, aggregate, issued, pc, req, last, submitted

vars == <<users, ratings, aggregate, issued, pc, req, last, submitted>>

(***************************************************************************)
(* Bounds                                                                  *)
(***************************************************************************)
\* Rating submissions that pass the checks before further ones are held back.
MaxSubmissions == 3

\* Concurrent request handlers (worker threads).
Handlers == {"h1", "h2"}

(***************************************************************************)
(* Text: Python strings that the code lowercases, strips or searches are   *)
(* tuples of characters.                                                   *)
(***************************************************************************)
UpperChars == <<"A","B","C","D","E","F","G","H","I","J","K","L","M",
                "N","O","P","Q","R","S","T","U","V","W","X","Y","Z">>
LowerChars == <<"a","b","c","d","e","f","g","h","i","j","k","l","m",
                "n","o","p","q","r","s","t","u","v","w","x","y","z">>

LowerChar(c) ==
    IF \E i \in DOMAIN UpperChars : UpperChars[i] = c
    THEN LowerChars[CHOOSE i \in DOMAIN UpperChars : UpperChars[i] = c]
    ELSE c

\* str.lower()
Lower(s) == [i \in DOMAIN s |-> LowerChar(s[i])]

\* str.strip(): leading and trailing blanks removed
Strip(s) ==
    LET keep == {i \in DOMAIN s : s[i] # " "}
    IN  IF keep = {} THEN <<>>
        ELSE LET lo == CHOOSE i \in keep : \A j \in keep : i <= j
                 hi == CHOOSE i \in keep : \A j \in keep : j <= i
             IN  SubSeq(s, lo, hi)

\* the `in` operator for one character
Contains(s, c) == \E i \in DOMAIN s : s[i] = c

ExampleCom == <<"@","e","x","a","m","p","l","e",".","c","o","m">>

\* None in a text column or a JSON field that is absent
Null == <<"N","U","L","L">>

(***************************************************************************)
(* Password hashing (werkzeug)                                             *)
(***************************************************************************)
GeneratePasswordHash(password) == <<"hash", password>>
CheckPasswordHash(hash, password) == hash = GeneratePasswordHash(password)

(***************************************************************************)
(* Accounts committed by the seed script                                   *)
(***************************************************************************)
SeedUsers ==
    << [id |-> 1, name |-> <<"A","l","i","c","e"," ","J","o","h","n","s","o","n">>,
        email |-> <<"a","l","i","c","e">> \o ExampleCom,
        password_hash |-> GeneratePasswordHash("alice123"),
        role |-> "client", phone |-> Null],
       [id |-> 2, name |-> <<"B","r","i","a","n"," ","K","i","m">>,
        email |-> <<"b","r","i","a","n">> \o ExampleCom,
        password_hash |-> GeneratePasswordHash("brian123"),
        role |-> "client", phone |-> Null],
       [id |-> 3, name |-> <<"C","h","a","n","e","l"," ","A","m","a","n","i">>,
        email |-> <<"c","h","a","n","e","l">> \o ExampleCom,
        password_hash |-> GeneratePasswordHash("chanel123"),
        role |-> "client", phone |-> Null],
       [id |-> 4, name |-> <<"F","i","x","I","t"," ","P","l","u","m","b","i","n","g"," ","C","o",".">>,
        email |-> <<"f","i","x","i","t">> \o ExampleCom,
        password_hash |-> GeneratePasswordHash("fixit123"),
        role |-> "provider", phone |-> <<"0","7","0","0","1","2","3","4","5","6">>],
       [id |-> 5, name |-> <<"S","p","a","r","k"," ","E","l","e","c","t","r","i","c","a","l","s">>,
        email |-> <<"s","p","a","r","k">> \o ExampleCom,
        password_hash |-> GeneratePasswordHash("spark123"),
        role |-> "provider", phone |-> <<"0","7","1","2","3","4","5","6","7","8">>],
       [id |-> 6, name |-> <<"C","l","e","a","n","S","w","e","e","p"," ","S","e","r","v","i","c","e","s">>,
        email |-> <<"c","l","e","a","n","s","w","e","e","p">> \o ExampleCom,
        password_hash |-> GeneratePasswordHash("clean123"),
        role |-> "provider", phone |-> <<"0","7","9","8","7","6","5","4","3","2">>] >>

(***************************************************************************)
(* Providers.  The handlers address providers through ServiceProvider,     *)
(* whose rows are the accounts with role = "provider"; its rating column   *)
(* is the stored aggregate the rating handler assigns and commits.         *)
(***************************************************************************)
ServiceProviderIds(us) == {us[i].id : i \in {j \in DOMAIN us : us[j].role = "provider"}}

NullRating == [null |-> TRUE, v |-> 0]
StoredRating(x) == [null |-> FALSE, v |-> x]

\* provider.rating as stored: NULL until a handler has assigned it
ProviderRating(agg, p) == IF p \in DOMAIN agg THEN agg[p] ELSE NullRating

\* float(provider.rating or 0.0), in hundredths
Displayed(agg, p) ==
    IF ProviderRating(agg, p).null THEN 0 ELSE ProviderRating(agg, p).v

\* ServiceProvider.query.get_or_404(id): TRUE when the row exists
GetOr404(us, id) == id \in ServiceProviderIds(us)

\* A lookup that accepts any id
RateGetAnything(us, id) == TRUE

\* line 183, the rating handler's lookup of its provider
RateGetOr404(us, id) == GetOr404(us, id)

(***************************************************************************)
(* JSON score values: an integer n, a float of n tenths, a string s, null  *)
(***************************************************************************)
JInt(n)   == [kind |-> "int",   n |-> n, s |-> <<>>]
JFloat(t) == [kind |-> "float", n |-> t, s |-> <<>>]
JStr(s)   == [kind |-> "str",   n |-> 0, s |-> s]
JNull     == [kind |-> "null",  n |-> 0, s |-> <<>>]

DigitChars == <<"0","1","2","3","4","5","6","7","8","9">>
IsDigit(c) == \E i \in DOMAIN DigitChars : DigitChars[i] = c
DigitValue(c) == (CHOOSE i \in DOMAIN DigitChars : DigitChars[i] = c) - 1

RECURSIVE DigitsValue(_)
DigitsValue(s) ==
    IF s = <<>> THEN 0
    ELSE 10 * DigitsValue(SubSeq(s, 1, Len(s) - 1)) + DigitValue(s[Len(s)])

Raised == [ok |-> FALSE, v |-> 0]
Value(x) == [ok |-> TRUE, v |-> x]

\* int(score): an int as is, a float truncated toward zero, a string parsed
\* as a decimal literal; TypeError or ValueError otherwise
PyInt(x) ==
    CASE x.kind = "int"   -> Value(x.n)
      [] x.kind = "float" -> Value(IF x.n >= 0 THEN x.n \div 10 ELSE -((-x.n) \div 10))
      [] x.kind = "str"   ->
            LET t == Strip(x.s)
            IN  IF t # <<>> /\ \A i \in DOMAIN t : IsDigit(t[i])
                THEN Value(DigitsValue(t)) ELSE Raised
      [] OTHER            -> Raised

\* rate_provider's score checks: the status it returns (0: none) and the score
CheckScore(x) ==
    IF x.kind = "null" THEN [code |-> 400, score |-> 0]
    ELSE IF ~PyInt(x).ok THEN [code |-> 400, score |-> 0]
    ELSE IF PyInt(x).v < 1 \/ PyInt(x).v > 5 THEN [code |-> 400, score |-> 0]
    ELSE [code |-> 0, score |-> PyInt(x).v]

\* Rating.validate_score: TRUE when the value is kept, FALSE when it raises
ValidateScore(value) == ~(value < 1 \/ value > 5)

(***************************************************************************)
(* Bearer tokens: the identity a token carries and whether jwt_required    *)
(* accepts it (signed by this server and unexpired).                       *)
(***************************************************************************)
Token(sub, ok) == [sub |-> sub, ok |-> ok]
CreateAccessToken(identity) == Token(identity, TRUE)
JwtRequired(tok) == tok.ok

\* The rater taken from the JSON body when it names one
IdentityFromBody(tok, claimed) == IF claimed # 0 THEN claimed ELSE tok.sub

\* get_jwt_identity(); the JSON body's own user_id is not consulted
GetJwtIdentity(tok, claimed) == tok.sub

(***************************************************************************)
(* The aggregate: round(sum / len, 2) in hundredths, ties to even          *)
(***************************************************************************)
RECURSIVE SumScores(_)
SumScores(rows) ==
    IF rows = <<>> THEN 0 ELSE rows[1].score + SumScores(Tail(rows))

Round2(total, n) ==
    LET q == (100 * total) \div n
        r == (100 * total) % n
    IN  IF 2 * r < n THEN q
        ELSE IF 2 * r > n THEN q + 1
        ELSE IF q % 2 = 0 THEN q ELSE q + 1

\* Rating.query.filter_by(provider_id=p).all()
RatingsOf(rows, p) == SelectSeq(rows, LAMBDA r : r.provider_id = p)

\* lines 201-206: the value assigned to provider.rating
Average(rows, p) ==
    IF RatingsOf(rows, p) # <<>>
    THEN Round2(SumScores(RatingsOf(rows, p)), Len(RatingsOf(rows, p)))
    ELSE 0

\* Rating.query.filter_by(provider_id=p, user_id=u): the matching rows
Matching(rows, p, u) ==
    {i \in DOMAIN rows : rows[i].provider_id = p /\ rows[i].user_id = u}

\* .first(): a matching row (0 for None); without ORDER BY the store picks
FirstChoices(rows, p, u) ==
    IF Matching(rows, p, u) = {} THEN {0} ELSE Matching(rows, p, u)

(***************************************************************************)
(* Handler-local state and the last response sent                          *)
(***************************************************************************)
NoToken == Token(0, FALSE)
NoData == [name |-> <<>>, email |-> <<>>, password |-> "", role |-> "", phone |-> <<>>]

IdleReq ==
    [tok |-> NoToken, provider |-> 0, raw |-> JNull, score |-> 0, comment |-> "",
     user |-> 0, existing |-> 0, loadedScore |-> 0, loadedComment |-> "",
     avg |-> 0, loadedRating |-> NullRating, data |-> NoData]

NoResponse ==
    [op |-> "", code |-> 0, tok |-> NoToken, id |-> 0, raw |-> JNull,
     rating |-> 0, listing |-> <<>>, data |-> NoData, uid |-> 0]

Idle(h) == pc[h] = "idle"

\* Upsert without the update branch: every submission appends a row
UpsertAlwaysInsert(rows, r) ==
    Append(rows, [id |-> Len(rows) + 1, provider_id |-> r.provider,
                  user_id |-> r.user, score |-> r.score, comment |-> r.comment])

\* lines 189-195: the rows after the handler's update or insert.  The unit
\* of work writes only the attributes whose new value differs from the one
\* loaded at line 188.
Upsert(rows, r) ==
    IF r.existing # 0
    THEN [rows EXCEPT
            ![r.existing].score =
                IF r.score # r.loadedScore THEN r.score ELSE @,
            ![r.existing].comment =
                IF r.comment # r.loadedComment THEN r.comment ELSE @]
    ELSE Append(rows, [id |-> Len(rows) + 1, provider_id |-> r.provider,
                       user_id |-> r.user, score |-> r.score,
                       comment |-> r.comment])

(***************************************************************************)
(* Requests the clients send                                               *)
(***************************************************************************)
AliceUpper == <<"A","L","I","C","E","@","E","X","A","M","P","L","E",".","C","O","M">>
BrianPadded == <<" ","b","r","i","a","n">> \o ExampleCom \o <<" ">>
ZedMixed == <<" ","Z","e","d">> \o ExampleCom
ZedNoAt == <<"z","e","d",".","e","x","a","m","p","l","e",".","c","o","m">>

Credentials ==
    { [email |-> AliceUpper,  password |-> "alice123"],
      [email |-> BrianPadded, password |-> "brian123"],
      [email |-> AliceUpper,  password |-> "brian123"],
      [email |-> ZedMixed,    password |-> "secret1"],
      [email |-> <<>>,        password |-> "alice123"] }

\* Tokens a client can present: one a login of account 1 or 2 issues, or one
\* that jwt_required turns away (missing, forged or expired, whatever it names).
RaterTokens == {CreateAccessToken(1), CreateAccessToken(2)}
Tokens == RaterTokens \cup {Token(1, FALSE)}

\* /providers/<id>: a provider, a client account, no account
ProviderIdInputs == {4, 1, 9}

ScoreInputs ==
    {JNull, JInt(0), JInt(3), JInt(5), JInt(6), JFloat(35), JStr(<<"a","b","c">>)}

\* data.get("comment", ""): an absent comment is ""
CommentInputs == {"", "late"}

\* a "user_id" the client may put in the JSON body (0: none)
ClaimedUserInputs == {0, 2}

(***************************************************************************)
(* POST /auth/login                                                        *)
(***************************************************************************)
\* User.query.filter_by(email=e).first(): the row's index, 0 for None
UserByEmail(us, e) ==
    IF \E i \in DOMAIN us : us[i].email = e
    THEN CHOOSE i \in DOMAIN us : us[i].email = e
    ELSE 0

\* The email stripped but not lowercased
NormalizeEmailKeepCase(email) == Strip(email)

\* email.lower().strip()
NormalizeEmail(email) == Strip(Lower(email))

AuthLogin(h, cred) ==
    /\ Idle(h)
    /\ LET i == UserByEmail(users, NormalizeEmail(cred.email))
           answer == [NoResponse EXCEPT !.op = "login",
                        !.data = [NoData EXCEPT !.email = cred.email,
                                                !.password = cred.password]]
       IN  IF cred.email = <<>> \/ cred.password = ""
           THEN /\ last' = [answer EXCEPT !.code = 400]
                /\ UNCHANGED issued
           ELSE IF i = 0 \/ ~CheckPasswordHash(users[i].password_hash, cred.password)
           THEN /\ last' = [answer EXCEPT !.code = 401]
                /\ UNCHANGED issued
           ELSE /\ last' = [answer EXCEPT !.code = 200, !.uid = users[i].id,
                              !.tok = CreateAccessToken(users[i].id)]
                /\ issued' = issued \cup {users[i].id}
    /\ UNCHANGED <<users, ratings, aggregate, pc, req, submitted>>

(***************************************************************************)
(* POST /providers/<id>/rating                                             *)
(***************************************************************************)
\* jwt_required, lines 168-188: the checks and the lookup of the rater's row
RateBegin(h, tok, id, raw, comment, claimed) ==
    /\ Idle(h)
    /\ LET answer == [NoResponse EXCEPT !.op = "rate", !.tok = tok,
                                        !.id = id, !.raw = raw]
           user == GetJwtIdentity(tok, claimed)
       IN  IF ~JwtRequired(tok)
           THEN /\ last' = [answer EXCEPT !.code = 401]
                /\ UNCHANGED <<pc, req, submitted>>
           ELSE IF CheckScore(raw).code # 0
           THEN /\ last' = [answer EXCEPT !.code = CheckScore(raw).code]
                /\ UNCHANGED <<pc, req, submitted>>
           ELSE IF ~RateGetOr404(users, id)
           THEN /\ last' = [answer EXCEPT !.code = 404]
                /\ UNCHANGED <<pc, req, submitted>>
           ELSE \E e \in FirstChoices(ratings, id, user) :
                /\ submitted < MaxSubmissions
                /\ submitted' = submitted + 1
                /\ pc' = [pc EXCEPT ![h] = "rate_write"]
                /\ req' = [req EXCEPT ![h] =
                     [IdleReq EXCEPT
                        !.tok = tok, !.provider = id, !.raw = raw,
                        !.score = CheckScore(raw).score, !.comment = comment,
                        !.user = user, !.existing = e,
                        !.loadedScore = IF e = 0 THEN 0 ELSE ratings[e].score,
                        !.loadedComment = IF e = 0 THEN "" ELSE ratings[e].comment]]
                /\ UNCHANGED last
    /\ UNCHANGED <<users, ratings, aggregate, issued>>

\* lines 189-198: update or insert, then commit
RateWrite(h) ==
    /\ pc[h] = "rate_write"
    /\ IF ValidateScore(req[h].score)
       THEN /\ ratings' = Upsert(ratings, req[h])
            /\ pc' = [pc EXCEPT ![h] = "rate_recompute"]
            /\ UNCHANGED <<req, last>>
       ELSE /\ last' = [NoResponse EXCEPT !.op = "rate", !.code = 500,
                          !.tok = req[h].tok, !.id = req[h].provider,
                          !.raw = req[h].raw]
            /\ pc' = [pc EXCEPT ![h] = "idle"]
            /\ req' = [req EXCEPT ![h] = IdleReq]
            /\ UNCHANGED ratings
    /\ UNCHANGED <<users, aggregate, issued, submitted>>

\* lines 201-206: the provider's rows are read back and averaged; reading
\* provider.id after the commit reloads the provider row
RateRecompute(h) ==
    /\ pc[h] = "rate_recompute"
    /\ req' = [req EXCEPT ![h].avg = Average(ratings, req[h].provider),
                          ![h].loadedRating = ProviderRating(aggregate, req[h].provider)]
    /\ pc' = [pc EXCEPT ![h] = "rate_finish"]
    /\ UNCHANGED <<users, ratings, aggregate, issued, last, submitted>>

\* lines 206-209: provider.rating is written (when it differs from the
\* reloaded value) and committed; the response carries the stored value
RateFinish(h) ==
    /\ pc[h] = "rate_finish"
    /\ aggregate' =
          IF StoredRating(req[h].avg) # req[h].loadedRating
          THEN [aggregate EXCEPT ![req[h].provider] = StoredRating(req[h].avg)]
          ELSE aggregate
    /\ last' = [NoResponse EXCEPT !.op = "rate", !.code = 201, !.id = req[h].provider,
                  !.rating = ProviderRating(aggregate', req[h].provider).v]
    /\ pc' = [pc EXCEPT ![h] = "idle"]
    /\ req' = [req EXCEPT ![h] = IdleReq]
    /\ UNCHANGED <<users, ratings, issued, submitted>>

(***************************************************************************)
(* GET /providers/<id> and GET /providers (no filter given)                *)
(***************************************************************************)
GetProvider(h, id) ==
    /\ Idle(h)
    /\ last' = IF GetOr404(users, id)
               THEN [NoResponse EXCEPT !.op = "get", !.code = 200, !.id = id,
                                       !.rating = Displayed(aggregate, id)]
               ELSE [NoResponse EXCEPT !.op = "get", !.code = 404, !.id = id]
    /\ UNCHANGED <<users, ratings, aggregate, issued, pc, req, submitted>>

GetProviders(h) ==
    /\ Idle(h)
    /\ last' = [NoResponse EXCEPT !.op = "list", !.code = 200,
                  !.listing = [p \in ServiceProviderIds(users) |->
                                  Displayed(aggregate, p)]]
    /\ UNCHANGED <<users, ratings, aggregate, issued, pc, req, submitted>>

(***************************************************************************)
(* POST /auth/register                                                     *)
(***************************************************************************)
\* Registration bodies: name, email and password as sent ("" or <<>> when
\* absent), and the role and phone a client may send along
RolePhoneInputs ==
    { [role |-> "",         phone |-> <<>>],
      [role |-> "client",   phone |-> <<>>],
      [role |-> "admin",    phone |-> <<>>],
      [role |-> "provider", phone |-> <<>>],
      [role |-> "provider", phone |-> <<"0","7","0","0">>],
      [role |-> "provider", phone |-> <<"0","7","0","0","1","2","3","4","5","6">>] }


Zed == <<"Z","e","d">>
LongPhone == <<"0","7","0","0","1","2","3","4","5","6">>

RegisterBody(n, e, p, r, ph) ==
    [name |-> n, email |-> e, password |-> p, role |-> r, phone |-> ph]

\* a well-formed body with each role and phone, and bodies with one defect
RegisterInputs ==
    { RegisterBody(Zed, ZedMixed, "secret1", rp.role, rp.phone) :
        rp \in RolePhoneInputs }
    \cup
    { RegisterBody(<<>>, ZedMixed,   "secret1", "client", <<>>),
      RegisterBody(Zed,  <<>>,       "secret1", "client", <<>>),
      RegisterBody(Zed,  ZedMixed,   "",        "client", <<>>),
      RegisterBody(Zed,  ZedNoAt,    "secret1", "client", <<>>),
      RegisterBody(Zed,  ZedMixed,   "abc",     "client", <<>>),
      RegisterBody(Zed,  AliceUpper, "secret1", "client", <<>>),
      RegisterBody(<<>>, AliceUpper, "secret1", "client", <<>>),
      RegisterBody(Zed,  BrianPadded, "secret1", "provider", LongPhone) }

\* User.validate_email: TRUE when the value is kept, FALSE when it raises
ValidateEmail(value) == Contains(value, "@")

\* User.set_password: TRUE when the hash is set, FALSE when it raises
SetPasswordOk(password) == ~(Len(password) < 6)

\* lines 74-75: the User the handler builds; role and phone are never set
NewUser(us, data) ==
    [id |-> Len(us) + 1, name |-> Strip(data.name),
     email |-> NormalizeEmail(data.email),
     password_hash |-> GeneratePasswordHash(data.password),
     role |-> Null, phone |-> Null]

\* The INSERT at commit: role is NOT NULL, email is UNIQUE
InsertAccepted(us, u) ==
    /\ u.role # Null
    /\ \A i \in DOMAIN us : us[i].email # u.email

\* lines 63-72: required fields and the lookup of the email
AuthRegisterBegin(h, data) ==
    /\ Idle(h)
    /\ LET answer == [NoResponse EXCEPT !.op = "register", !.data = data]
       IN  IF data.name = <<>> \/ data.email = <<>> \/ data.password = ""
           THEN /\ last' = [answer EXCEPT !.code = 400]
                /\ UNCHANGED <<pc, req>>
           ELSE IF UserByEmail(users, NormalizeEmail(data.email)) # 0
           THEN /\ last' = [answer EXCEPT !.code = 409]
                /\ UNCHANGED <<pc, req>>
           ELSE /\ pc' = [pc EXCEPT ![h] = "register_commit"]
                /\ req' = [req EXCEPT ![h] = [IdleReq EXCEPT !.data = data]]
                /\ UNCHANGED last
    /\ UNCHANGED <<users, ratings, aggregate, issued, submitted>>

\* lines 74-79: the User is built (its validators run), added and committed;
\* an exception the handler does not catch is answered with 500
AuthRegisterCommit(h) ==
    /\ pc[h] = "register_commit"
    /\ LET data == req[h].data
           answer == [NoResponse EXCEPT !.op = "register", !.data = data]
           user == NewUser(users, data)
       IN  IF ~ValidateEmail(user.email) \/ ~SetPasswordOk(data.password)
           THEN /\ last' = [answer EXCEPT !.code = 500]
                /\ UNCHANGED users
           ELSE IF ~InsertAccepted(users, user)
           THEN /\ last' = [answer EXCEPT !.code = 500]
                /\ UNCHANGED users
           ELSE /\ users' = Append(users, user)
                /\ last' = [answer EXCEPT !.code = 201, !.uid = user.id]
    /\ pc' = [pc EXCEPT ![h] = "idle"]
    /\ req' = [req EXCEPT ![h] = IdleReq]
    /\ UNCHANGED <<ratings, aggregate, issued, submitted>>

(***************************************************************************)
(* GET /users/me                                                           *)
(***************************************************************************)
\* User.query.get_or_404(id): the row's index, 0 when it aborts with 404
UserGetOr404(us, id) ==
    IF \E i \in DOMAIN us : us[i].id = id
    THEN CHOOSE i \in DOMAIN us : us[i].id = id
    ELSE 0

\* Tokens a client holds: those the logins issued, or one that is turned away
HeldTokens == {CreateAccessToken(u) : u \in issued} \cup {Token(1, FALSE)}

UsersMe(h, tok) ==
    /\ Idle(h)
    /\ LET answer == [NoResponse EXCEPT !.op = "me", !.tok = tok]
           i == UserGetOr404(users, GetJwtIdentity(tok, 0))
       IN  last' = IF ~JwtRequired(tok) THEN [answer EXCEPT !.code = 401]
                   ELSE IF i = 0 THEN [answer EXCEPT !.code = 404]
                   ELSE [answer EXCEPT !.code = 200, !.uid = users[i].id]
    /\ UNCHANGED <<users, ratings, aggregate, issued, pc, req, submitted>>

(***************************************************************************)
(* Specifications                                                          *)
(***************************************************************************)
Init ==
    /\ users = SeedUsers
    /\ ratings = <<>>
    /\ aggregate = [p \in ServiceProviderIds(SeedUsers) |-> NullRating]
    /\ issued = {}
    /\ pc = [h \in Handlers |-> "idle"]
    /\ req = [h \in Handlers |-> IdleReq]
    /\ last = NoResponse
    /\ submitted = 0

\* One step of the rating ledger by handler h, for the requests given
RatingStep(h, toks, ids, bodies, claims) ==
    \/ \E tok \in toks, id \in ids, body \in bodies, claimed \in claims :
            RateBegin(h, tok, id, body.score, body.comment, claimed)
    \/ RateWrite(h)
    \/ RateRecompute(h)
    \/ RateFinish(h)
    \/ \E id \in ids : GetProvider(h, id)
    \/ GetProviders(h)

\* JSON bodies of a rating submission
Body(raw, comment) == [score |-> raw, comment |-> comment]

\* Well-formed bodies: a score, the same score with a comment, another score
RaterBodies == {Body(JInt(3), ""), Body(JInt(3), "late"), Body(JInt(5), "late")}

AllBodies == {Body(raw, c) : raw \in ScoreInputs, c \in CommentInputs}

\* Concurrent handlers serving well-formed submissions of two raters
NextRating ==
    \E h \in Handlers : RatingStep(h, RaterTokens, {4}, RaterBodies, {0})

SpecRating == Init /\ [][NextRating]_vars

\* One handler serving every kind of submission
NextChecks ==
    RatingStep("h1", Tokens, ProviderIdInputs, AllBodies, ClaimedUserInputs)

SpecChecks == Init /\ [][NextChecks]_vars

\* One step of the identity store by handler h
AuthStep(h) ==
    \/ \E data \in RegisterInputs : AuthRegisterBegin(h, data)
    \/ AuthRegisterCommit(h)
    \/ \E cred \in Credentials : AuthLogin(h, cred)
    \/ \E tok \in HeldTokens : UsersMe(h, tok)

NextAuth == \E h \in Handlers : AuthStep(h)

SpecAuth == Init /\ [][NextAuth]_vars

\* The whole service
Next ==
    \E h \in Handlers :
        \/ RatingStep(h, Tokens, ProviderIdInputs, AllBodies, ClaimedUserInputs)
        \/ AuthStep(h)

Spec == Init /\ [][Next]_vars

(***************************************************************************)
(* Properties of the rating ledger                                         *)
(***************************************************************************)
AllIdle == \A h \in Handlers : Idle(h)

NoDuplicatePairs ==
    \A i, j \in DOMAIN ratings :
        (ratings[i].provider_id = ratings[j].provider_id
         /\ ratings[i].user_id = ratings[j].user_id) => i = j

RECURSIVE ScoreSum(_, _)
ScoreSum(rows, S) ==
    IF S = {} THEN 0
    ELSE LET i == CHOOSE k \in S : TRUE
         IN  rows[i].score + ScoreSum(rows, S \ {i})

RowsOfProvider(rows, p) == {i \in DOMAIN rows : rows[i].provider_id = p}

\* The mean of the provider's stored scores in hundredths, 0 without rows
MeanOfStored(rows, p) ==
    IF RowsOfProvider(rows, p) = {} THEN 0
    ELSE Round2(ScoreSum(rows, RowsOfProvider(rows, p)),
                Cardinality(RowsOfProvider(rows, p)))

\* C1: in every reachable state, interleaved handlers of the same rater
\* included, the ratings table holds at most one row per (provider, rater).
C1_OneRatingPerPair == NoDuplicatePairs

\* C2: in every state a reader can observe, the rating GetProvider and
\* ListProviders display for a provider is the rounded mean of the rows
\* stored for it, and 0 when it has none.
C2_DisplayedIsMean ==
    \A p \in ServiceProviderIds(users) :
        Displayed(aggregate, p) = MeanOfStored(ratings, p)

\* C3: once concurrent submissions of different raters (every submission
\* inserted its own row, no pair twice) have all finished, the provider's
\* stored aggregate is the mean of all of its rows.
C3_AggregateAfterConcurrentRaters ==
    (AllIdle /\ NoDuplicatePairs /\ Len(ratings) = submitted) =>
        \A p \in ServiceProviderIds(users) :
            RowsOfProvider(ratings, p) # {} =>
                ProviderRating(aggregate, p) = StoredRating(MeanOfStored(ratings, p))

\* A handler's write step, on a row it found (resubmit) or not (first submit)
Wrote(h) == pc[h] = "rate_write" /\ pc'[h] = "rate_recompute"

RowAsLoaded(h) ==
    /\ ratings[req[h].existing].score = req[h].loadedScore
    /\ ratings[req[h].existing].comment = req[h].loadedComment

RatePcs == {"rate_write", "rate_recompute", "rate_finish"}

\* A JSON integer from 1 to 5
IntegerScore(x) == x.kind = "int" /\ x.n >= 1 /\ x.n <= 5

\* The step sent a response to a rating submission
Answered == last' # last /\ last'.op = "rate"

LedgerUnchanged == ratings' = ratings /\ aggregate' = aggregate

\* C5: an authenticated submission whose score is missing, not an integer or
\* out of range is answered 400; every submission in progress carries a JSON
\* integer from 1 to 5, and every stored score is that submitted integer.
C5_OnlyIntegerScores ==
    /\ (last.op = "rate" /\ JwtRequired(last.tok) /\ ~IntegerScore(last.raw))
          => last.code = 400
    /\ \A h \in Handlers :
          pc[h] \in RatePcs =>
             IntegerScore(req[h].raw) /\ req[h].score = req[h].raw.n
    /\ \A i \in DOMAIN ratings : ratings[i].score \in 1..5

ProviderAccountIds ==
    {users[i].id : i \in {j \in DOMAIN users : users[j].role = "provider"}}

EqualIgnoringCase(a, b) == Lower(a) = Lower(b)

Registered == last' # last /\ last'.op = "register"

\* C8: a registration carrying name, email and password whose email equals,
\* ignoring letter case, the email of a stored account is answered 409 and
\* adds no account, however the register handlers interleave; no two stored
\* accounts have the same lowercased email.
C8_EmailConflict ==
    [][ /\ (Registered /\ last'.data.name # <<>> /\ last'.data.password # ""
            /\ \E i \in DOMAIN users :
                  EqualIgnoringCase(users[i].email, last'.data.email)) =>
              last'.code = 409 /\ users' = users
        /\ \A i, j \in DOMAIN users' :
              EqualIgnoringCase(users'[i].email, users'[j].email) => i = j
      ]_vars

\* The upper-case spelling of a stored email was answered 409
C8_Witness ==
    /\ last.op = "register" /\ last.code = 409
    /\ last.data.email = AliceUpper
    /\ last.data.email # users[1].email
    /\ EqualIgnoringCase(last.data.email, users[1].email)

\* What the validation of a registration must turn away
InvalidRegistration(d) ==
    \/ d.name = <<>> \/ d.email = <<>> \/ d.password = "" \/ d.role = ""
    \/ d.role \notin {"client", "provider"}
    \/ ~Contains(d.email, "@")
    \/ Len(d.password) < 6
    \/ (d.role = "provider" /\ Len(Strip(d.phone)) < 9)

\* C9: a registration with name, email, password or role missing, a role
\* other than client or provider, an email without "@", a password shorter
\* than 6 or a provider phone missing or shorter than 9 is answered 400;
\* every stored account has role client or provider, and a stored provider
\* has a phone of at least 9 characters.
C9_RegisterValidation ==
    /\ (last.op = "register" /\ InvalidRegistration(last.data))
          => last.code = 400
    /\ \A i \in DOMAIN users :
          /\ users[i].role \in {"client", "provider"}
          /\ users[i].role = "provider" =>
                users[i].phone # Null /\ Len(Strip(users[i].phone)) >= 9

====
